---- MODULE Spec2Model ----
(***************************************************************************)
(* Voice2Web: popup UI controller, router service worker and content       *)
(* automation engine, modelled as a state machine.                         *)
(*   src/src/popup/ui.js        UI controller (1-756), router (757-1111)   *)
(*   src/src/services/content.js  content dispatcher                       *)
(* Strings the code inspects character by character (URLs) are sequences   *)
(* of one-character strings; opaque texts are TLA+ strings.                *)
(***************************************************************************)
EXTENDS Integers, Sequences, FiniteSets, TLC

VARIABLES tabs, routerInbox, calls, updListeners, nSent, nDropped,
          ui, procs, spoken, nFinals, webpage, cmds

routerVars == <<tabs, calls, updListeners, nSent>>
uiVars == <<ui, procs, spoken, nFinals>>
contentVars == <<webpage, cmds>>
vars == <<tabs, routerInbox, calls, updListeners, nSent, nDropped, ui, procs, spoken, nFinals,
          webpage, cmds>>

(***************************************************************************)
(* Bounds                                                                  *)
(***************************************************************************)
MaxInitTabs == 2
MaxMessages == 1
MaxHostLen == 3
MaxFinals == 2
MaxElems == 3
MaxCommands == 1
MaxRouted == 2

(***************************************************************************)
(* Strings                                                                 *)
(***************************************************************************)
StartsWith(s, p) == Len(s) >= Len(p) /\ SubSeq(s, 1, Len(p)) = p

HttpPrefix == <<"h", "t", "t", "p">>
HttpScheme == <<"h", "t", "t", "p", ":", "/", "/">>
HttpsScheme == <<"h", "t", "t", "p", "s", ":", "/", "/">>
FtpScheme == <<"f", "t", "p", ":", "/", "/">>
ChromeScheme == <<"c", "h", "r", "o", "m", "e", ":", "/", "/">>
DefaultUrl == HttpsScheme \o <<"w", "w", "w", ".", "g", "o", "o", "g", "l", "e", ".", "c", "o", "m">>
ChromeUrl == ChromeScheme \o <<"x">>
WebUrl == HttpsScheme \o <<"a">>

(***************************************************************************)
(* Data model                                                              *)
(***************************************************************************)
NoEntities == [k \in {} |-> ""]
NoResult == [none |-> TRUE]
NoCommand == [none |-> TRUE]
NoData == [none |-> TRUE]
NoTab == 0

Has(rec, key) == key \in DOMAIN rec

\* JavaScript truthiness of an optional string property: undefined and ''
\* are falsy.
Truthy(rec, key) == Has(rec, key) /\ rec[key] # ""

\* The same for a property held as a character sequence.
TruthySeq(rec, key) == Has(rec, key) /\ rec[key] # <<>>

RelayIntents == {"search", "website_search", "form_fill", "book_ticket", "summarize"}
LocalIntents == {"open_site", "qna", "other"}
UnknownIntents == {"play_music", "SEARCH"}
Intents == RelayIntents \cup LocalIntents \cup UnknownIntents

Messages == {"m1", "m2"}

EntitiesFor(intent) ==
  CASE intent \in {"search", "website_search"} -> {NoEntities, [query |-> "cats"]}
    [] intent = "form_fill" ->
         {NoEntities, [form_fields |-> <<>>],
          [form_fields |-> <<[key |-> <<"f", "r", "o", "m">>, value |-> "a@b.com"],
                             [key |-> <<"x">>, value |-> "X"]>>]}
    [] intent = "book_ticket" -> {NoEntities, [from |-> "A", to |-> "B", date |-> "D"]}
    [] intent = "open_site" ->
         {NoEntities, [website |-> <<>>], [website |-> <<"a">>],
          [website |-> HttpScheme \o <<"a">>]}
    [] OTHER -> {NoEntities}

MessagesFor(intent) == IF intent \in {"qna", "other"} THEN Messages ELSE {"m1"}

Payloads ==
  UNION {{[intent |-> i, entities |-> e, message |-> m] :
            e \in EntitiesFor(i), m \in MessagesFor(i)} : i \in Intents}

\* A tab as chrome.tabs reports it; active means active in the current window.
Tab(id, url, active, status) ==
  [id |-> id, url |-> url, active |-> active, status |-> status]

RECURSIVE WithIds(_)
WithIds(ts) ==
  IF ts = <<>> THEN <<>>
  ELSE Append(WithIds(SubSeq(ts, 1, Len(ts) - 1)),
              [ts[Len(ts)] EXCEPT !.id = Len(ts)])

InitTabSeqs ==
  {WithIds(ts) : ts \in UNION {[1..n -> {Tab(0, u, a, "complete") :
                                           u \in {ChromeUrl, WebUrl}, a \in BOOLEAN}] :
                                 n \in 0..MaxInitTabs}}

InitTabs == {ts \in InitTabSeqs : Cardinality({k \in 1..Len(ts) : ts[k].active}) <= 1}

(***************************************************************************)
(* Tab utilities (router)                                                  *)
(***************************************************************************)
Resolved(tabId) == [ok |-> TRUE, tab |-> tabId, error |-> ""]
Rejected(msg) == [ok |-> FALSE, tab |-> NoTab, error |-> msg]

QueryError == "Tabs cannot be queried right now"
CreateError == "No current window"
SendError == "Could not establish connection. Receiving end does not exist."

\* chrome.tabs.query({active: true, currentWindow: true}) as seen by the callback
QueryActive(ts) == SelectSeq(ts, LAMBDA t : t.active)

getActiveTab(ts, lastError) ==
  IF lastError THEN Rejected(QueryError)
  ELSE IF Len(QueryActive(ts)) = 0 THEN Rejected("No active tab")
  ELSE Resolved(QueryActive(ts)[1].id)

IsRestricted(t) == StartsWith(t.url, ChromeScheme)

\* tabs.find(t => !t.url.startsWith('chrome://'))
FindValid(ts) == SelectSeq(ts, LAMBDA t : ~IsRestricted(t))

\* A getAnyValidTab that takes the first tab whatever its URL.
getAnyTab(ts, lastError) ==
  IF lastError THEN Rejected(QueryError)
  ELSE IF Len(ts) = 0 THEN Rejected("No tabs available")
  ELSE Resolved(ts[1].id)

getAnyValidTab(ts, lastError) ==
  IF lastError THEN Rejected(QueryError)
  ELSE IF Len(ts) = 0 THEN Rejected("No tabs available")
  ELSE IF Len(FindValid(ts)) = 0 THEN Rejected("No usable tab")
  ELSE Resolved(FindValid(ts)[1].id)

\* chrome.tabs.create({url}): the new tab is appended to the current window
\* and becomes its active tab.
CreatedTabs(ts, url) ==
  Append([k \in 1..Len(ts) |-> [ts[k] EXCEPT !.active = FALSE]],
         Tab(Len(ts) + 1, url, TRUE, "loading"))

(***************************************************************************)
(* Routing calls: one record per invocation, with its position (pc)        *)
(***************************************************************************)
NewCall(op, data, allowCreate) ==
  [op |-> op, data |-> data, allowCreate |-> allowCreate, pc |-> "start",
   ran |-> <<>>, cmd |-> NoCommand, url |-> <<>>, tab |-> NoTab,
   caught |-> <<>>, created |-> <<>>, sentTo |-> <<>>, queries |-> 0,
   response |-> NoResult, results |-> <<>>,
   outcome |-> "pending", result |-> NoResult, error |-> "", replies |-> <<>>]

\* routeIntent's promise settles; the listener's async wrapper replies.
Return(c, r) ==
  [c EXCEPT !.pc = "done", !.outcome = "returned", !.result = r,
            !.replies = IF c.op = "routeIntent"
                        THEN Append(@, [success |-> TRUE, result |-> r]) ELSE @]

\* A rejection of routeIntent that the listener does not answer.
ThrowUnanswered(c, msg) == [c EXCEPT !.pc = "done", !.outcome = "thrown", !.error = msg]

Throw(c, msg) ==
  [c EXCEPT !.pc = "done", !.outcome = "thrown", !.error = msg,
            !.replies = IF c.op = "routeIntent"
                        THEN Append(@, [success |-> FALSE, error |-> msg]) ELSE @]

\* The arm of routeIntent's switch that ran: a handler, or the default arm.
Ran(c, name) == [c EXCEPT !.ran = Append(@, name)]

\* createNewTab(url): chrome.tabs.create is issued, the caller is suspended.
createNewTab(c, url) == [c EXCEPT !.pc = "creating", !.url = url]

\* getUsableTab(createIfMissing): first step, getActiveTab()'s query is issued.
getUsableTab(c, createIfMissing) ==
  [c EXCEPT !.allowCreate = createIfMissing, !.pc = "activeQuery", !.queries = @ + 1]

\* sendToContent(payload, allowCreate) up to its first suspension.
sendToContent(c, payload, allowCreate) ==
  getUsableTab([c EXCEPT !.cmd = payload], allowCreate)

\* sendToContent after getUsableTab returned tab: chrome.tabs.sendMessage.
SendMessage(c, tabId) ==
  [c EXCEPT !.tab = tabId, !.pc = "sending", !.sentTo = Append(@, tabId)]

\* getUsableTab returned tabId to its caller.
TabResolved(c, tabId) ==
  IF c.op = "getUsableTab"
  THEN [c EXCEPT !.tab = tabId, !.pc = "done", !.outcome = "returned"]
  ELSE SendMessage(c, tabId)

\* getUsableTab threw: sendToContent's catch turns it into a Result.
TabFailed(c, msg) ==
  IF c.op = "getUsableTab"
  THEN [c EXCEPT !.pc = "done", !.outcome = "thrown", !.error = msg]
  ELSE Return(c, [success |-> FALSE, error |-> msg])

\* A sendToContent that sends the Command again after a failed delivery.
SendRejectedRetry(c, msg) ==
  IF Len(c.sentTo) < 2 THEN SendMessage(c, c.tab) ELSE Throw(c, msg)

\* The promise returned from inside sendToContent's try block rejects: it is
\* returned without await, so the catch block does not see the rejection.
SendRejected(c, msg) == Throw(c, msg)

(***************************************************************************)
(* Intent handlers and routeIntent                                         *)
(***************************************************************************)
handleSearch(c) ==
  sendToContent(Ran(c, "handleSearch"), [type |-> "SEARCH", payload |-> c.data], TRUE)

\* A handler copied from handleSearch with the Command type left unchanged.
handleWebsiteSearchCopied(c) ==
  sendToContent(Ran(c, "handleWebsiteSearch"), [type |-> "SEARCH", payload |-> c.data], TRUE)

handleWebsiteSearch(c) ==
  sendToContent(Ran(c, "handleWebsiteSearch"),
                [type |-> "WEBSITE_SEARCH", payload |-> c.data], TRUE)

handleFormFill(c) ==
  sendToContent(Ran(c, "handleFormFill"), [type |-> "FORM_FILL", payload |-> c.data], TRUE)

handleBooking(c) ==
  sendToContent(Ran(c, "handleBooking"), [type |-> "BOOK_TICKET", payload |-> c.data], TRUE)

handleSummarize(c) ==
  sendToContent(Ran(c, "handleSummarize"), [type |-> "SUMMARIZE", payload |-> c.data], TRUE)

NormalizeUrl(url) == IF ~StartsWith(url, HttpPrefix) THEN HttpsScheme \o url ELSE url

\* A handleOpenSite without the check of the website entity.
handleOpenSiteUnchecked(c) ==
  createNewTab(Ran(c, "handleOpenSite"),
               NormalizeUrl(IF Has(c.data.entities, "website")
                            THEN c.data.entities.website ELSE <<>>))

handleOpenSite(c) ==
  IF ~TruthySeq(c.data.entities, "website")
  THEN Return(Ran(c, "handleOpenSite"), [success |-> FALSE, error |-> "No website given"])
  ELSE createNewTab(Ran(c, "handleOpenSite"), NormalizeUrl(c.data.entities.website))

\* handleOpenSite after createNewTab(url) resolved with the tab.
OpenSiteDone(c, tabId) ==
  Return(c, [success |-> TRUE, tabId |-> tabId, message |-> "Website opened"])

\* A handleQnA that answers with a fixed text.
handleQnAFixed(c) == Return(Ran(c, "handleQnA"), [success |-> TRUE, message |-> "Done"])

handleQnA(c) == Return(Ran(c, "handleQnA"), [success |-> TRUE, message |-> c.data.message])

handleOther(c) == Return(Ran(c, "handleOther"), [success |-> TRUE, message |-> c.data.message])

\* A default arm that treats an unknown intent like 'other'.
UnknownIntentAsOther(c) == handleOther(c)

\* routeIntent's default arm.
UnknownIntent(c) == Return(Ran(c, "default"), [success |-> FALSE, error |-> "Unknown intent"])

routeIntent(c) ==
  CASE c.data.intent = "search" -> handleSearch(c)
    [] c.data.intent = "website_search" -> handleWebsiteSearch(c)
    [] c.data.intent = "form_fill" -> handleFormFill(c)
    [] c.data.intent = "book_ticket" -> handleBooking(c)
    [] c.data.intent = "open_site" -> handleOpenSite(c)
    [] c.data.intent = "qna" -> handleQnA(c)
    [] c.data.intent = "summarize" -> handleSummarize(c)
    [] c.data.intent = "other" -> handleOther(c)
    [] OTHER -> UnknownIntent(c)

(***************************************************************************)
(* Content dispatcher (content.js)                                         *)
(* A page is its hostname test, its elements in document order and its     *)
(* body text. A handler's run is the Result it returns or the error it     *)
(* throws, with the effects it had on the page in the order it had them.   *)
(* The handlers read only which elements the page holds, which no handler  *)
(* changes, so the timers they await between effects are not separate      *)
(* steps.                                                                  *)
(***************************************************************************)
SummaryMax == 5000

Whitespace == {" ", "\n", "\t"}

\* text.replace(/\s+/g, ' ')
RECURSIVE CollapseWs(_)
CollapseWs(t) ==
  IF t = <<>> THEN <<>>
  ELSE IF Head(t) \in Whitespace
       THEN IF Len(t) > 1 /\ t[2] \in Whitespace
            THEN CollapseWs(Tail(t))
            ELSE <<" ">> \o CollapseWs(Tail(t))
       ELSE <<Head(t)>> \o CollapseWs(Tail(t))

RECURSIVE TrimLeft(_)
TrimLeft(t) == IF t # <<>> /\ Head(t) \in Whitespace THEN TrimLeft(Tail(t)) ELSE t

RECURSIVE TrimRight(_)
TrimRight(t) ==
  IF t # <<>> /\ t[Len(t)] \in Whitespace THEN TrimRight(SubSeq(t, 1, Len(t) - 1)) ELSE t

Trim(t) == TrimRight(TrimLeft(t))

Slice(t, n) == SubSeq(t, 1, IF Len(t) < n THEN Len(t) ELSE n)

QWord == <<"q">>
SearchWord == <<"s", "e", "a", "r", "c", "h">>
FromWord == <<"f", "r", "o", "m">>
ToWord == <<"t", "o">>
DateWord == <<"d", "a", "t", "e">>

\* An element with the attributes the handlers' selectors test; form tells
\* whether the element has a form owner.
Element(tag, type, name, id, placeholder, form) ==
  [tag |-> tag, type |-> type, name |-> name, id |-> id, placeholder |-> placeholder,
   form |-> form, value |-> ""]

NoElement == 0

\* [attr*="sub"]: the attribute value contains sub; an empty sub matches nothing.
Contains(s, sub) ==
  /\ sub # <<>>
  /\ \E i \in 0..(Len(s) - Len(sub)) : SubSeq(s, i + 1, i + Len(sub)) = sub

\* input[name="q"]
MatchGoogleBox(e) == e.tag = "input" /\ e.name = QWord

\* input[type="search"], input[name*="search"], input[placeholder*="search"]
MatchSearchBox(e) ==
  /\ e.tag = "input"
  /\ e.type = "search" \/ Contains(e.name, SearchWord) \/ Contains(e.placeholder, SearchWord)

\* input[name*="${key}"], input[id*="${key}"], textarea[name*="${key}"]
MatchField(e, key) ==
  \/ e.tag = "input" /\ (Contains(e.name, key) \/ Contains(e.id, key))
  \/ e.tag = "textarea" /\ Contains(e.name, key)

\* input[name*="${name}"], input[id*="${name}"]
MatchAutoFill(e, name) == e.tag = "input" /\ (Contains(e.name, name) \/ Contains(e.id, name))

\* button[type="submit"], input[type="submit"]
MatchSubmit(e) == e.tag \in {"button", "input"} /\ e.type = "submit"

\* A selector the handlers pass to document.querySelector.
Selector(kind, word) == [kind |-> kind, word |-> word]

Selects(sel, e) ==
  CASE sel.kind = "googleBox" -> MatchGoogleBox(e)
    [] sel.kind = "searchBox" -> MatchSearchBox(e)
    [] sel.kind = "field" -> MatchField(e, sel.word)
    [] sel.kind = "autoFill" -> MatchAutoFill(e, sel.word)
    [] sel.kind = "submit" -> MatchSubmit(e)

\* document.querySelector: the first matching element in document order, or null.
QuerySelector(elems, sel) ==
  LET hits == {k \in 1..Len(elems) : Selects(sel, elems[k])}
  IN IF hits = {} THEN NoElement ELSE CHOOSE k \in hits : \A j \in hits : k <= j

\* A key is pasted unescaped between the quotes of an attribute selector: a
\* double quote, a backslash or a line break in it leaves a selector that
\* querySelector rejects with a SyntaxError.
SelectorParses(key) == \A i \in 1..Len(key) : key[i] \notin {"\"", "\\", "\n"}

SelectorError == "Failed to execute 'querySelector' on 'Document': not a valid selector"
NullSubmitError == "Cannot read properties of null (reading 'submit')"
NoPayloadError == "Cannot read properties of undefined (reading 'entities')"

Effect(op, el, arg) == [op |-> op, el |-> el, arg |-> arg]

Ok(r, effects) == [threw |-> FALSE, result |-> r, error |-> "", effects |-> effects]
Err(msg, effects) == [threw |-> TRUE, result |-> NoResult, error |-> msg, effects |-> effects]

\* el.focus(); el.value = value; dispatch input and change events
FillEffects(el, value) ==
  <<Effect("focus", el, ""), Effect("value", el, value),
    Effect("event", el, "input"), Effect("event", el, "change")>>

pageGoogleSearch(data, page) ==
  IF ~Truthy(data.entities, "query") THEN Err("No search query provided", <<>>)
  ELSE IF ~page.google
  THEN Ok([success |-> TRUE, message |-> "Redirecting to Google"],
          <<Effect("navigate", NoElement, data.entities.query)>>)
  ELSE LET input == QuerySelector(page.elems, Selector("googleBox", QWord))
           typed == <<Effect("value", input, data.entities.query),
                      Effect("event", input, "input")>>
       IN IF input = NoElement THEN Err("Google search box not found", <<>>)
          ELSE IF ~page.elems[input].form THEN Err(NullSubmitError, typed)
          ELSE Ok([success |-> TRUE, message |-> "Search executed"],
                  Append(typed, Effect("submit", input, "")))

\* A handleWebsiteSearch that presses Enter after submitting the form too.
pageWebsiteSearchBoth(data, page) ==
  IF ~Truthy(data.entities, "query") THEN Err("No query provided", <<>>)
  ELSE LET searchInput == QuerySelector(page.elems, Selector("searchBox", SearchWord))
       IN IF searchInput = NoElement THEN Err("No search box found on website", <<>>)
          ELSE Ok([success |-> TRUE, message |-> "Website search completed"],
                  FillEffects(searchInput, data.entities.query)
                    \o (IF page.elems[searchInput].form
                        THEN <<Effect("submit", searchInput, "")>> ELSE <<>>)
                    \o <<Effect("event", searchInput, "keydown:Enter")>>)

pageWebsiteSearch(data, page) ==
  IF ~Truthy(data.entities, "query") THEN Err("No query provided", <<>>)
  ELSE LET searchInput == QuerySelector(page.elems, Selector("searchBox", SearchWord))
       IN IF searchInput = NoElement THEN Err("No search box found on website", <<>>)
          ELSE Ok([success |-> TRUE, message |-> "Website search completed"],
                  Append(FillEffects(searchInput, data.entities.query),
                         IF page.elems[searchInput].form
                         THEN Effect("submit", searchInput, "")
                         ELSE Effect("event", searchInput, "keydown:Enter")))

\* The loop of handleFormFill over Object.entries(fields), from entry k on.
RECURSIVE FormFillLoop(_, _, _, _, _)
FormFillLoop(fields, k, elems, effects, filled) ==
  IF k > Len(fields)
  THEN Ok([success |-> TRUE, message |-> "Filled " \o ToString(filled) \o " fields"], effects)
  ELSE IF ~SelectorParses(fields[k].key) THEN Err(SelectorError, effects)
  ELSE LET input == QuerySelector(elems, Selector("field", fields[k].key))
       IN IF input = NoElement
          THEN FormFillLoop(fields, k + 1, elems, effects, filled)
          ELSE FormFillLoop(fields, k + 1, elems,
                            effects \o FillEffects(input, fields[k].value), filled + 1)

\* A handleFormFill that reports the number of entries it was given.
pageFormFillCountsEntries(data, page) ==
  IF ~Has(data.entities, "form_fields") \/ Len(data.entities.form_fields) = 0
  THEN Err("No form fields provided", <<>>)
  ELSE LET run == FormFillLoop(data.entities.form_fields, 1, page.elems, <<>>, 0)
       IN IF run.threw THEN run
          ELSE Ok([success |-> TRUE,
                   message |-> "Filled " \o ToString(Len(data.entities.form_fields))
                                 \o " fields"], run.effects)

\* form_fields holds the mapping's entries in insertion order.
pageFormFill(data, page) ==
  IF ~Has(data.entities, "form_fields") \/ Len(data.entities.form_fields) = 0
  THEN Err("No form fields provided", <<>>)
  ELSE FormFillLoop(data.entities.form_fields, 1, page.elems, <<>>, 0)

\* autoFill(name, value) with value = entities[key]
autoFill(elems, name, entities, key) ==
  IF ~Truthy(entities, key) THEN <<>>
  ELSE LET el == QuerySelector(elems, Selector("autoFill", name))
       IN IF el = NoElement THEN <<>> ELSE FillEffects(el, entities[key])

\* A handleBooking that clicks the submit control before it fills the date.
pageBookingEarlyClick(data, page) ==
  LET submit == QuerySelector(page.elems, Selector("submit", <<>>))
  IN Ok([success |-> TRUE, message |-> "Booking form processed"],
        autoFill(page.elems, FromWord, data.entities, "from")
          \o autoFill(page.elems, ToWord, data.entities, "to")
          \o (IF submit # NoElement THEN <<Effect("click", submit, "")>> ELSE <<>>)
          \o autoFill(page.elems, DateWord, data.entities, "date"))

pageBooking(data, page) ==
  LET submit == QuerySelector(page.elems, Selector("submit", <<>>))
  IN Ok([success |-> TRUE, message |-> "Booking form processed"],
        autoFill(page.elems, FromWord, data.entities, "from")
          \o autoFill(page.elems, ToWord, data.entities, "to")
          \o autoFill(page.elems, DateWord, data.entities, "date")
          \o (IF submit # NoElement THEN <<Effect("click", submit, "")>> ELSE <<>>))

pageSummarize(page) ==
  Ok([success |-> TRUE, summary |-> Slice(Trim(CollapseWs(page.text)), SummaryMax),
      message |-> "Page content extracted"], <<>>)

\* The switch of the listener; a handler that is given no payload throws on
\* data.entities.
ContentSwitch(message, page) ==
  IF message.type \in {"SEARCH", "WEBSITE_SEARCH", "FORM_FILL", "BOOK_TICKET"}
       /\ ~Has(message, "payload")
  THEN Err(NoPayloadError, <<>>)
  ELSE CASE message.type = "SEARCH" -> pageGoogleSearch(message.payload, page)
         [] message.type = "WEBSITE_SEARCH" -> pageWebsiteSearch(message.payload, page)
         [] message.type = "FORM_FILL" -> pageFormFill(message.payload, page)
         [] message.type = "BOOK_TICKET" -> pageBooking(message.payload, page)
         [] message.type = "SUMMARIZE" -> pageSummarize(page)
         [] OTHER -> Ok([success |-> FALSE, error |-> "Unknown command"], <<>>)

\* A listener whose catch block only logs the error.
ContentRepliesUncaught(message, page) ==
  IF ContentSwitch(message, page).threw THEN <<>>
  ELSE <<ContentSwitch(message, page).result>>

\* The content script's onMessage listener: the Results passed to sendResponse.
ContentReplies(message, page) ==
  IF ContentSwitch(message, page).threw
  THEN <<[success |-> FALSE, error |-> ContentSwitch(message, page).error]>>
  ELSE <<ContentSwitch(message, page).result>>

ContentListener(message, page) == ContentReplies(message, page)[1]

\* The elements after the effects: each holds the last value assigned to it.
ApplyEffects(elems, effects) ==
  [k \in 1..Len(elems) |->
     LET sets == {i \in 1..Len(effects) : effects[i].op = "value" /\ effects[i].el = k}
     IN IF sets = {} THEN elems[k]
        ELSE [elems[k] EXCEPT !.value = effects[CHOOSE i \in sets : \A j \in sets : j <= i].arg]]

(***************************************************************************)
(* UI controller (ui.js 1-756)                                             *)
(* ui.state is the controller's state object, ui.dom what it has rendered. *)
(***************************************************************************)
Null == 0
Now == 1

Placeholder == [kind |-> "placeholder"]

InitState ==
  [isListening |-> FALSE, currentTranscript |-> <<>>, finalTranscript |-> <<>>,
   currentResponse |-> "", hasError |-> FALSE, sessionStartTime |-> Null]

\* The popup's static markup before initialize() runs setUIState('ready').
InitDom ==
  [statusText |-> "Ready", statusDot |-> {"ready"}, micLabel |-> "Click to Start",
   micListening |-> FALSE, transcriptArea |-> Placeholder, responseArea |-> Placeholder]

StatusMessage(stateName) ==
  CASE stateName = "ready" -> "Ready"
    [] stateName = "listening" -> "Listening..."
    [] stateName = "processing" -> "Processing..."
    [] stateName = "responding" -> "Responding..."
    [] stateName = "error" -> "Error occurred"
    [] OTHER -> stateName

MicLabel(stateName) ==
  CASE stateName = "ready" -> "Click to Start"
    [] stateName = "listening" -> "Listening..."
    [] stateName = "processing" -> "Processing..."
    [] stateName = "error" -> "Try Again"
    [] OTHER -> "Click to Start"

\* classList.remove('ready', 'listening', 'processing', 'error'); add(stateName)
updateStatusDot(classes, stateName) ==
  (classes \ {"ready", "listening", "processing", "error"}) \cup {stateName}

setUIState(u, stateName) ==
  [u EXCEPT !.dom.statusText = StatusMessage(stateName),
            !.dom.statusDot = updateStatusDot(@, stateName),
            !.dom.micLabel = MicLabel(stateName)]

updateMicButton(u, isListening) == [u EXCEPT !.dom.micListening = isListening]

displayTranscript(u, text, isFinal) ==
  [u EXCEPT !.dom.transcriptArea = [kind |-> "text", text |-> text, final |-> isFinal]]

displayResponse(u, text) ==
  [u EXCEPT !.dom.responseArea = [kind |-> "text", text |-> text],
            !.state.currentResponse = text]

showError(u, type, message, fatal) ==
  [u EXCEPT !.dom.statusText = "Error: " \o type,
            !.dom.responseArea = [kind |-> "error", message |-> message, fatal |-> fatal]]

clearTranscript(u) == [u EXCEPT !.dom.transcriptArea = Placeholder]

clearResponse(u) == [u EXCEPT !.dom.responseArea = Placeholder]

clearAllContent(u) ==
  [clearResponse(clearTranscript(u)) EXCEPT
     !.state.currentTranscript = <<>>, !.state.finalTranscript = <<>>,
     !.state.currentResponse = "", !.state.hasError = FALSE]

\* VoiceEngine.start() returns true, returns false or throws.
StartOutcomes == {"true", "false", "throws"}

\* A startListening that marks the session as listening before it asks the
\* engine to start.
startListeningOptimistic(u, started) ==
  LET cleared == clearResponse(clearTranscript(
                   [u EXCEPT !.state.hasError = FALSE, !.state.currentTranscript = <<>>,
                             !.state.finalTranscript = <<>>,
                             !.state.sessionStartTime = Now, !.state.isListening = TRUE]))
  IN CASE started = "true" -> updateMicButton(setUIState(cleared, "listening"), TRUE)
       [] started = "false" ->
            showError(cleared, "start-failed", "Failed to start voice recognition", FALSE)
       [] OTHER -> showError(cleared, "start-failed", "engine start threw", FALSE)

startListening(u, started) ==
  LET cleared == clearResponse(clearTranscript(
                   [u EXCEPT !.state.hasError = FALSE, !.state.currentTranscript = <<>>,
                             !.state.finalTranscript = <<>>,
                             !.state.sessionStartTime = Now]))
  IN CASE started = "true" ->
            updateMicButton(setUIState([cleared EXCEPT !.state.isListening = TRUE],
                                       "listening"), TRUE)
       [] started = "false" ->
            showError(cleared, "start-failed", "Failed to start voice recognition", FALSE)
       [] OTHER -> showError(cleared, "start-failed", "engine start threw", FALSE)

\* stopThrows: VoiceEngine.stop() threw, the catch block only logs.
stopListening(u, stopThrows) ==
  IF stopThrows THEN u
  ELSE updateMicButton(setUIState([u EXCEPT !.state.isListening = FALSE], "ready"), FALSE)

handleClearButtonClick(u, stopThrows) ==
  setUIState(clearAllContent(IF u.state.isListening THEN stopListening(u, stopThrows) ELSE u),
             "ready")

\* A handleVoiceError that leaves isListening to the engine's state callback.
handleVoiceErrorStillListening(u, errorInfo) ==
  updateMicButton(
    setUIState(showError([u EXCEPT !.state.hasError = TRUE],
                         errorInfo.type, errorInfo.message, errorInfo.fatal),
               "error"),
    FALSE)

handleVoiceError(u, errorInfo) ==
  updateMicButton(
    setUIState(showError([u EXCEPT !.state.hasError = TRUE, !.state.isListening = FALSE],
                         errorInfo.type, errorInfo.message, errorInfo.fatal),
               "error"),
    FALSE)

handleVoiceStateChange(u, isListening) ==
  IF isListening # u.state.isListening
  THEN updateMicButton([u EXCEPT !.state.isListening = isListening], isListening)
  ELSE u

\* !transcript || transcript.trim().length === 0
IsBlank(transcript) == Len(Trim(transcript)) = 0

\* handleTranscript up to the fetch issued by processTranscript.
handleTranscript(u, transcript, isFinal) ==
  IF isFinal
  THEN LET shown == displayTranscript([u EXCEPT !.state.finalTranscript = transcript,
                                                !.state.currentTranscript = <<>>],
                                      transcript, TRUE)
       IN IF IsBlank(transcript) THEN shown ELSE setUIState(shown, "processing")
  ELSE displayTranscript([u EXCEPT !.state.currentTranscript = transcript], transcript, FALSE)

\* sendToRouter(data): the message handed to chrome.runtime.sendMessage
RouterEnvelope(data) == [type |-> "INTENT_RESULT", payload |-> data]

\* result.message || 'Done'
ResponseText(result) == IF Truthy(result, "message") THEN result.message ELSE "Done"

\* processTranscript after a successful fetch, up to await delay(500).
BackendSucceeded(u, result) == displayResponse(setUIState(u, "responding"), ResponseText(result))

\* A catch block that logs the failure and returns to ready.
BackendFailedLogged(u) == setUIState(u, "ready")

\* processTranscript's catch block.
BackendFailed(u) ==
  setUIState(showError(u, "processing-failed", "Failed to process your message", FALSE),
             "error")

(***************************************************************************)
(* Inputs                                                                  *)
(***************************************************************************)
Transcripts == {<<" ">>, <<"h", "i">>, <<"g", "o">>}

BackendResults ==
  {[intent |-> "qna", entities |-> NoEntities, message |-> "m1"],
   [intent |-> "search", entities |-> [query |-> "cats"], message |-> ""]}

ErrorInfos ==
  {[type |-> "no-speech", message |-> "No speech detected", fatal |-> FALSE],
   [type |-> "not-allowed", message |-> "Microphone blocked", fatal |-> TRUE]}

PageTexts == {<<>>, <<" ", "a", " ", "\n", "b", "\t">>}

\* The elements a page is drawn from, in document order.
Document ==
  <<Element("input", "text", QWord, <<>>, <<>>, TRUE),
    Element("input", "text", QWord, <<>>, <<>>, FALSE),
    Element("input", "search", <<>>, <<>>, <<>>, TRUE),
    Element("input", "text", <<>>, <<>>, SearchWord, FALSE),
    Element("input", "text", FromWord, <<>>, <<>>, TRUE),
    Element("input", "text", <<>>, ToWord, <<>>, TRUE),
    Element("textarea", "", DateWord, <<>>, <<>>, TRUE),
    Element("input", "text", <<>>, DateWord, <<>>, TRUE),
    Element("button", "submit", <<>>, <<>>, <<>>, TRUE)>>

RECURSIVE Picked(_, _)
Picked(S, k) ==
  IF k > Len(Document) THEN <<>>
  ELSE (IF k \in S THEN <<Document[k]>> ELSE <<>>) \o Picked(S, k + 1)

Pages ==
  {[google |-> g, elems |-> Picked(S, 1), text |-> t] :
     g \in BOOLEAN, t \in PageTexts,
     S \in {S \in SUBSET (1..Len(Document)) : Cardinality(S) <= MaxElems}}

BlankPage == [google |-> FALSE, elems |-> <<>>, text |-> <<>>]

FormFields ==
  {<<>>,
   <<[key |-> FromWord, value |-> "v1"], [key |-> <<"o">>, value |-> "v2"]>>,
   <<[key |-> <<"x">>, value |-> "v1"]>>,
   <<[key |-> FromWord, value |-> "v1"], [key |-> <<"\"">>, value |-> "v2"]>>,
   <<[key |-> DateWord, value |-> "v1"], [key |-> ToWord, value |-> "v2"]>>}

ContentEntities(type) ==
  CASE type = "SEARCH" -> {NoEntities, [query |-> "cats"], [query |-> ""]}
    [] type = "WEBSITE_SEARCH" -> {NoEntities, [query |-> "cats"]}
    [] type = "FORM_FILL" -> {NoEntities} \cup {[form_fields |-> f] : f \in FormFields}
    [] type = "BOOK_TICKET" ->
         {NoEntities, [from |-> "A", to |-> "B", date |-> "D"], [from |-> "A"],
          [to |-> "", date |-> "D"]}
    [] OTHER -> {NoEntities}

CommandTypes == {"SEARCH", "WEBSITE_SEARCH", "FORM_FILL", "BOOK_TICKET", "SUMMARIZE", "PING"}

\* The Commands a page's content script is sent: well-formed ones, one of an
\* unrecognized type and two that carry no payload.
ContentCommands ==
  UNION {{[type |-> t, payload |-> [intent |-> "x", entities |-> e, message |-> "m1"]] :
            e \in ContentEntities(t)} : t \in CommandTypes}
    \cup {[type |-> "SEARCH"], [type |-> "BOOK_TICKET"]}

\* The payloads of a run of routing calls: one that opens a site, one that is
\* relayed to a page and one that is answered at once.
RoutedPayloads ==
  {[intent |-> "open_site", entities |-> [website |-> <<"a">>], message |-> "m1"],
   [intent |-> "search", entities |-> [query |-> "cats"], message |-> "m1"],
   [intent |-> "qna", entities |-> NoEntities, message |-> "m1"]}

RuntimeMessages ==
  {[type |-> "PROCESS_INTENT", data |-> p] : p \in Payloads}
    \cup {RouterEnvelope(r) : r \in BackendResults}

RemoveAt(q, k) == SubSeq(q, 1, k - 1) \o SubSeq(q, k + 1, Len(q))

IsOpenSite(c) == c.op = "routeIntent" /\ c.data.intent = "open_site"

(***************************************************************************)
(* Router actions                                                          *)
(***************************************************************************)
\* Some extension context calls chrome.runtime.sendMessage(msg).
RuntimeSendMessage(msg) ==
  /\ nSent < MaxMessages
  /\ nSent' = nSent + 1
  /\ routerInbox' = Append(routerInbox, msg)
  /\ UNCHANGED <<tabs, calls, updListeners, nDropped, uiVars, contentVars>>

\* A listener that takes a message only when every earlier routing call is over.
RouterReceiveSerial(k) ==
  /\ k \in 1..Len(routerInbox)
  /\ \A i \in 1..Len(calls) : calls[i].pc = "done"
  /\ routerInbox' = RemoveAt(routerInbox, k)
  /\ IF routerInbox[k].type # "PROCESS_INTENT"
     THEN nDropped' = nDropped + 1 /\ calls' = calls
     ELSE /\ calls' = Append(calls, routeIntent(NewCall("routeIntent", routerInbox[k].data, FALSE)))
          /\ nDropped' = nDropped
  /\ UNCHANGED <<tabs, updListeners, nSent, uiVars, contentVars>>

\* Some extension context sends {type: 'PROCESS_INTENT', data}.
SendProcessIntent(data) ==
  /\ nSent < MaxRouted
  /\ nSent' = nSent + 1
  /\ routerInbox' = Append(routerInbox, [type |-> "PROCESS_INTENT", data |-> data])
  /\ UNCHANGED <<tabs, calls, updListeners, nDropped, uiVars, contentVars>>

\* The router's chrome.runtime.onMessage listener receives a message and runs
\* to its first suspension.
RouterReceive(k) ==
  /\ k \in 1..Len(routerInbox)
  /\ routerInbox' = RemoveAt(routerInbox, k)
  /\ IF routerInbox[k].type # "PROCESS_INTENT"
     THEN nDropped' = nDropped + 1 /\ calls' = calls
     ELSE /\ calls' = Append(calls, routeIntent(NewCall("routeIntent", routerInbox[k].data, FALSE)))
          /\ nDropped' = nDropped
  /\ UNCHANGED <<tabs, updListeners, nSent, uiVars, contentVars>>

\* getUsableTab after getActiveTab settled with r: the outer catch block
\* issues getAnyValidTab's query.
AfterActiveTab(c, r) ==
  IF r.ok THEN TabResolved(c, r.tab)
  ELSE [c EXCEPT !.caught = Append(@, r.error), !.pc = "anyQuery", !.queries = @ + 1]

\* Callback of getActiveTab's chrome.tabs.query.
ActiveQueryCallback(i, lastError) ==
  /\ calls[i].pc = "activeQuery"
  /\ calls' = [calls EXCEPT ![i] =
                 AfterActiveTab(@, getActiveTab(tabs, lastError))]
  /\ UNCHANGED <<tabs, routerInbox, updListeners, nSent, nDropped, uiVars, contentVars>>

\* A getUsableTab that creates a tab whatever createIfMissing says.
AfterAnyValidTabAlwaysCreate(c, r) ==
  IF r.ok THEN TabResolved(c, r.tab)
  ELSE createNewTab([c EXCEPT !.caught = Append(@, r.error)], DefaultUrl)

\* getUsableTab after getAnyValidTab settled with r.
AfterAnyValidTab(c, r) ==
  IF r.ok THEN TabResolved(c, r.tab)
  ELSE IF c.allowCreate THEN createNewTab([c EXCEPT !.caught = Append(@, r.error)], DefaultUrl)
  ELSE TabFailed([c EXCEPT !.caught = Append(@, r.error)], "No usable tab found")

\* Callback of getAnyValidTab's chrome.tabs.query.
AnyQueryCallback(i, lastError) ==
  /\ calls[i].pc = "anyQuery"
  /\ calls' = [calls EXCEPT ![i] = AfterAnyValidTab(@, getAnyValidTab(tabs, lastError))]
  /\ UNCHANGED <<tabs, routerInbox, updListeners, nSent, nDropped, uiVars, contentVars>>

\* createNewTab rejected with chrome.runtime.lastError.
CreateRejected(c, msg) == IF IsOpenSite(c) THEN Throw(c, msg) ELSE TabFailed(c, msg)

\* Callback of chrome.tabs.create inside createNewTab.
CreateCallback(i, lastError) ==
  /\ calls[i].pc = "creating"
  /\ IF lastError
     THEN /\ calls' = [calls EXCEPT ![i] = CreateRejected(@, CreateError)]
          /\ UNCHANGED <<tabs, updListeners>>
     ELSE /\ tabs' = CreatedTabs(tabs, calls[i].url)
          /\ calls' = [calls EXCEPT ![i] = [@ EXCEPT !.pc = "waitLoad",
                                                     !.created = Append(@, Len(tabs) + 1)]]
          /\ updListeners' = updListeners \cup {[call |-> i, tabId |-> Len(tabs) + 1]}
  /\ UNCHANGED <<routerInbox, nSent, nDropped, uiVars, contentVars>>

\* A listener that takes the first load-complete update of any tab.
ListenerFiresAnyTab(l, tabId, status) == status = "complete"

\* The onUpdated listener registered by createNewTab.
ListenerFires(l, tabId, status) == tabId = l.tabId /\ status = "complete"

\* createNewTab resolved with the created tab.
CreateResolved(c, tabId) == IF IsOpenSite(c) THEN OpenSiteDone(c, tabId) ELSE TabResolved(c, tabId)

\* An onUpdated listener that resolves its promise and stays registered.
TabUpdatedListenerKept(tabId, status) ==
  /\ tabId \in 1..Len(tabs)
  /\ tabs[tabId].status # status
  /\ tabs' = [tabs EXCEPT ![tabId].status = status]
  /\ updListeners' = updListeners
  /\ calls' = [i \in 1..Len(calls) |->
                 IF /\ calls[i].pc = "waitLoad"
                    /\ \E l \in updListeners : l.call = i /\ ListenerFires(l, tabId, status)
                 THEN CreateResolved(calls[i], calls[i].created[Len(calls[i].created)])
                 ELSE calls[i]]
  /\ UNCHANGED <<routerInbox, nSent, nDropped, uiVars, contentVars>>

\* The browser reports a status change of a tab: chrome.tabs.onUpdated.
TabUpdated(tabId, status) ==
  /\ tabId \in 1..Len(tabs)
  /\ tabs[tabId].status # status
  /\ tabs' = [tabs EXCEPT ![tabId].status = status]
  /\ updListeners' = {l \in updListeners : ~ListenerFires(l, tabId, status)}
  /\ calls' = [i \in 1..Len(calls) |->
                 IF \E l \in updListeners : l.call = i /\ ListenerFires(l, tabId, status)
                 THEN CreateResolved(calls[i], calls[i].created[Len(calls[i].created)])
                 ELSE calls[i]]
  /\ UNCHANGED <<routerInbox, nSent, nDropped, uiVars, contentVars>>

\* The Commands the intent handlers build from the payloads above.
RouterCommands ==
  {routeIntent(NewCall("routeIntent", p, FALSE)).cmd :
     p \in {q \in Payloads \cup RoutedPayloads : q.intent \in RelayIntents}}

\* What the content script can answer to a Command, over all pages.
Answers(cmd) == {ContentListener(cmd, page) : page \in Pages}

AnswerTable == [cmd \in RouterCommands |-> Answers(cmd)]

Responses(c) ==
  IF c.pc # "sending" THEN {}
  ELSE IF c.cmd \in RouterCommands THEN AnswerTable[c.cmd] ELSE Answers(c.cmd)

\* The content script of the destination tab receives the Command and answers;
\* chrome:// pages run no content script.
ContentReceive(i, response) ==
  /\ calls[i].pc = "sending"
  /\ ~IsRestricted(tabs[calls[i].tab])
  /\ response \in Responses(calls[i])
  /\ calls' = [calls EXCEPT ![i] = [@ EXCEPT !.pc = "responded", !.response = response]]
  /\ UNCHANGED <<tabs, routerInbox, updListeners, nSent, nDropped, uiVars, contentVars>>

\* Callback of chrome.tabs.sendMessage with the page's response.
SendMessageCallback(i) ==
  /\ calls[i].pc = "responded"
  /\ calls' = [calls EXCEPT ![i] = Return([@ EXCEPT !.results = Append(@, calls[i].response)],
                                          calls[i].response)]
  /\ UNCHANGED <<tabs, routerInbox, updListeners, nSent, nDropped, uiVars, contentVars>>

\* Callback of chrome.tabs.sendMessage with chrome.runtime.lastError set.
SendMessageFails(i) ==
  /\ calls[i].pc = "sending"
  /\ calls' = [calls EXCEPT ![i] = SendRejected(@, SendError)]
  /\ UNCHANGED <<tabs, routerInbox, updListeners, nSent, nDropped, uiVars, contentVars>>

(***************************************************************************)
(* Content script actions                                                  *)
(***************************************************************************)
\* The page's content script receives message, runs the handler and answers.
ContentCommand(message) ==
  /\ Len(cmds) < MaxCommands
  /\ cmds' = Append(cmds, [message |-> message, google |-> webpage.google,
                           before |-> webpage.elems,
                           threw |-> ContentSwitch(message, webpage).threw,
                           error |-> ContentSwitch(message, webpage).error,
                           effects |-> ContentSwitch(message, webpage).effects,
                           replies |-> ContentReplies(message, webpage)])
  /\ webpage' = [webpage EXCEPT
                   !.elems = ApplyEffects(@, ContentSwitch(message, webpage).effects)]
  /\ UNCHANGED <<routerVars, routerInbox, nDropped, uiVars>>

(***************************************************************************)
(* UI controller actions                                                   *)
(***************************************************************************)
\* A transcript callback that goes on to processTranscript for interim
\* transcripts too.
TranscriptAlwaysProcessed(t, isFinal) ==
  /\ isFinal => nFinals < MaxFinals
  /\ ui' = handleTranscript(ui, t, isFinal)
  /\ nFinals' = IF isFinal THEN nFinals + 1 ELSE nFinals
  /\ procs' = IF ~IsBlank(t)
              THEN Append(procs, [transcript |-> t, request |-> [text |-> t],
                                  pc |-> "fetching", result |-> NoResult])
              ELSE procs
  /\ UNCHANGED <<contentVars, routerVars, routerInbox, nDropped, spoken>>

\* VoiceEngine transcript callback; a final one goes on to processTranscript.
Transcript(t, isFinal) ==
  /\ isFinal => nFinals < MaxFinals
  /\ ui' = handleTranscript(ui, t, isFinal)
  /\ nFinals' = IF isFinal THEN nFinals + 1 ELSE nFinals
  /\ procs' = IF isFinal /\ ~IsBlank(t)
              THEN Append(procs, [transcript |-> t, request |-> [text |-> t],
                                  pc |-> "fetching", result |-> NoResult])
              ELSE procs
  /\ UNCHANGED <<contentVars, routerVars, routerInbox, nDropped, spoken>>

\* fetch resolved with an ok response whose JSON body is result.
BackendResponds(p, result) ==
  /\ p \in 1..Len(procs)
  /\ procs[p].pc = "fetching"
  /\ ui' = BackendSucceeded(ui, result)
  /\ spoken' = IF Truthy(result, "message") THEN Append(spoken, result.message) ELSE spoken
  /\ routerInbox' = Append(routerInbox, RouterEnvelope(result))
  /\ procs' = [procs EXCEPT ![p].pc = "delay", ![p].result = result]
  /\ UNCHANGED <<contentVars, routerVars, nDropped, nFinals>>

\* fetch rejected or the response was not ok.
BackendFails(p) ==
  /\ p \in 1..Len(procs)
  /\ procs[p].pc = "fetching"
  /\ ui' = BackendFailed(ui)
  /\ procs' = [procs EXCEPT ![p].pc = "done"]
  /\ UNCHANGED <<contentVars, routerVars, routerInbox, nDropped, spoken, nFinals>>

\* delay(500) elapsed in processTranscript.
DelayElapsed(p) ==
  /\ p \in 1..Len(procs)
  /\ procs[p].pc = "delay"
  /\ ui' = setUIState(ui, "ready")
  /\ procs' = [procs EXCEPT ![p].pc = "done"]
  /\ UNCHANGED <<contentVars, routerVars, routerInbox, nDropped, spoken, nFinals>>

handleMicButtonClick(u, started, stopThrows) ==
  IF u.state.isListening THEN stopListening(u, stopThrows) ELSE startListening(u, started)

MicButtonClick(started, stopThrows) ==
  /\ ui' = handleMicButtonClick(ui, started, stopThrows)
  /\ UNCHANGED <<contentVars, routerVars, routerInbox, nDropped, procs, spoken, nFinals>>

EscapeKey(stopThrows) ==
  /\ ui.state.isListening
  /\ ui' = stopListening(ui, stopThrows)
  /\ UNCHANGED <<contentVars, routerVars, routerInbox, nDropped, procs, spoken, nFinals>>

ClearButtonClick(stopThrows) ==
  /\ ui' = handleClearButtonClick(ui, stopThrows)
  /\ UNCHANGED <<contentVars, routerVars, routerInbox, nDropped, procs, spoken, nFinals>>

VoiceError(errorInfo) ==
  /\ ui' = handleVoiceError(ui, errorInfo)
  /\ UNCHANGED <<contentVars, routerVars, routerInbox, nDropped, procs, spoken, nFinals>>

VoiceStateChange(isListening) ==
  /\ ui' = handleVoiceStateChange(ui, isListening)
  /\ UNCHANGED <<contentVars, routerVars, routerInbox, nDropped, procs, spoken, nFinals>>

(***************************************************************************)
(* Specifications                                                          *)
(***************************************************************************)
InitUI == ui = [state |-> InitState, dom |-> InitDom] /\ procs = <<>> /\ spoken = <<>> /\ nFinals = 0

\* No page is being automated.
InitContent == webpage = BlankPage /\ cmds = <<>>

InitRouter ==
  /\ tabs \in InitTabs
  /\ routerInbox = <<>>
  /\ calls = <<>>
  /\ updListeners = {}
  /\ nSent = 0
  /\ nDropped = 0

Init == InitRouter /\ InitUI /\ InitContent

NextRouter ==
  \/ \E msg \in RuntimeMessages : RuntimeSendMessage(msg)
  \/ \E k \in 1..Len(routerInbox) : RouterReceive(k)
  \/ \E i \in 1..Len(calls), lastError \in BOOLEAN : ActiveQueryCallback(i, lastError)
  \/ \E i \in 1..Len(calls), lastError \in BOOLEAN : AnyQueryCallback(i, lastError)
  \/ \E i \in 1..Len(calls), lastError \in BOOLEAN : CreateCallback(i, lastError)
  \/ \E tabId \in 1..Len(tabs), status \in {"loading", "complete"} : TabUpdated(tabId, status)
  \/ \E i \in 1..Len(calls) : \E response \in Responses(calls[i]) : ContentReceive(i, response)
  \/ \E i \in 1..Len(calls) : SendMessageCallback(i)
  \/ \E i \in 1..Len(calls) : SendMessageFails(i)

Next == NextRouter

\* The router service worker with the browser's tabs and the pages' content
\* scripts, driven by messages from extension contexts.
Spec == Init /\ [][Next]_vars

NextUI ==
  \/ \E t \in Transcripts, isFinal \in BOOLEAN : Transcript(t, isFinal)
  \/ \E p \in 1..Len(procs), result \in BackendResults : BackendResponds(p, result)
  \/ \E p \in 1..Len(procs) : BackendFails(p)
  \/ \E p \in 1..Len(procs) : DelayElapsed(p)
  \/ \E started \in StartOutcomes, stopThrows \in BOOLEAN : MicButtonClick(started, stopThrows)
  \/ \E stopThrows \in BOOLEAN : EscapeKey(stopThrows)
  \/ \E stopThrows \in BOOLEAN : ClearButtonClick(stopThrows)
  \/ \E errorInfo \in ErrorInfos : VoiceError(errorInfo)
  \/ \E isListening \in BOOLEAN : VoiceStateChange(isListening)
  \/ \E k \in 1..Len(routerInbox) : RouterReceive(k)

InitPopup ==
  /\ InitUI
  /\ InitContent
  /\ tabs = <<>>
  /\ routerInbox = <<>>
  /\ calls = <<>>
  /\ updListeners = {}
  /\ nSent = 0
  /\ nDropped = 0

\* The popup's UI controller with the router's message listener.
SpecUI == InitPopup /\ [][NextUI]_vars

\* getUsableTab(createIfMissing) called on its own, for both values of its
\* parameter (the intent handlers only ever pass true).
InitResolve ==
  /\ InitUI
  /\ InitContent
  /\ tabs \in InitTabs
  /\ routerInbox = <<>>
  /\ \E createIfMissing \in BOOLEAN :
       calls = <<getUsableTab(NewCall("getUsableTab", NoData, createIfMissing), createIfMissing)>>
  /\ updListeners = {}
  /\ nSent = 0
  /\ nDropped = 0

NextResolve ==
  \/ \E i \in 1..Len(calls), lastError \in BOOLEAN : ActiveQueryCallback(i, lastError)
  \/ \E i \in 1..Len(calls), lastError \in BOOLEAN : AnyQueryCallback(i, lastError)
  \/ \E i \in 1..Len(calls), lastError \in BOOLEAN : CreateCallback(i, lastError)
  \/ \E tabId \in 1..Len(tabs), status \in {"loading", "complete"} : TabUpdated(tabId, status)

SpecResolve == InitResolve /\ [][NextResolve]_vars

\* open_site over a range of website entities.
Hosts == UNION {[1..n -> {"a", "."}] : n \in 0..MaxHostLen}

Websites ==
  {p \o h : p \in {<<>>, <<"h">>, HttpPrefix, HttpScheme, HttpsScheme, FtpScheme}, h \in Hosts}

InitUrl ==
  /\ InitUI
  /\ InitContent
  /\ tabs = <<>>
  /\ \E w \in Websites :
       routerInbox = <<[type |-> "PROCESS_INTENT",
                        data |-> [intent |-> "open_site", entities |-> [website |-> w],
                                  message |-> "m1"]]>>
  /\ calls = <<>>
  /\ updListeners = {}
  /\ nSent = 1
  /\ nDropped = 0

NextUrl ==
  \/ \E k \in 1..Len(routerInbox) : RouterReceive(k)
  \/ \E i \in 1..Len(calls), lastError \in BOOLEAN : CreateCallback(i, lastError)
  \/ \E tabId \in 1..Len(tabs), status \in {"loading", "complete"} : TabUpdated(tabId, status)

SpecUrl == InitUrl /\ [][NextUrl]_vars

\* The content script of one page, over the pages and the Commands above.
InitPage ==
  /\ InitUI
  /\ tabs = <<>>
  /\ routerInbox = <<>>
  /\ calls = <<>>
  /\ updListeners = {}
  /\ nSent = 0
  /\ nDropped = 0
  /\ webpage \in Pages
  /\ cmds = <<>>

NextContent == \E message \in ContentCommands : ContentCommand(message)

SpecContent == InitPage /\ [][NextContent]_vars

\* The router over a run of PROCESS_INTENT messages, starting with no tab open.
InitTabLoad ==
  /\ InitUI
  /\ InitContent
  /\ tabs = <<>>
  /\ routerInbox = <<>>
  /\ calls = <<>>
  /\ updListeners = {}
  /\ nSent = 0
  /\ nDropped = 0

\* The steps the router and the browser's callbacks take by themselves.
RouterStep ==
  \/ \E k \in 1..Len(routerInbox) : RouterReceive(k)
  \/ \E i \in 1..Len(calls), lastError \in BOOLEAN : ActiveQueryCallback(i, lastError)
  \/ \E i \in 1..Len(calls), lastError \in BOOLEAN : AnyQueryCallback(i, lastError)
  \/ \E i \in 1..Len(calls), lastError \in BOOLEAN : CreateCallback(i, lastError)
  \/ \E i \in 1..Len(calls) : \E response \in Responses(calls[i]) : ContentReceive(i, response)
  \/ \E i \in 1..Len(calls) : SendMessageCallback(i)
  \/ \E i \in 1..Len(calls) : SendMessageFails(i)

NextTabLoad ==
  \/ \E data \in RoutedPayloads : SendProcessIntent(data)
  \/ RouterStep
  \/ \E tabId \in 1..Len(tabs), status \in {"loading", "complete"} : TabUpdated(tabId, status)

\* Messages are delivered and callbacks are called; whether and when a page
\* finishes loading is up to the page.
SpecTabLoad == InitTabLoad /\ [][NextTabLoad]_vars /\ WF_vars(RouterStep)

(***************************************************************************)
(* Claims                                                                  *)
(***************************************************************************)
RouteCalls == {i \in 1..Len(calls) : calls[i].op = "routeIntent"}

Succeeded == {p \in 1..Len(procs) : procs[p].result # NoResult}

\* C1 (as stated): every final transcript whose backend call succeeded has put
\* exactly one message {type: "PROCESS_INTENT", data: result} on its way to the
\* router, and the router's listener drops none of them but calls routeIntent
\* on the backend result.
C1_RouterRoutesBackendResult ==
  /\ \A k \in 1..Len(routerInbox) :
       /\ routerInbox[k].type = "PROCESS_INTENT"
       /\ Has(routerInbox[k], "data")
       /\ \E p \in Succeeded : routerInbox[k].data = procs[p].result
  /\ nDropped = 0
  /\ Len(routerInbox) + Len(calls) = Cardinality(Succeeded)
  /\ \A i \in RouteCalls : \E p \in Succeeded : calls[i].data = procs[p].result

SpecDispatchSet == {"search", "website_search", "form_fill", "book_ticket", "open_site", "qna", "other"}

UnknownIntentOutcome(c) ==
  /\ c.pc = "done"
  /\ c.outcome = "returned"
  /\ c.result = [success |-> FALSE, error |-> "Unknown intent"]
  /\ c.queries = 0
  /\ c.created = <<>>
  /\ c.sentTo = <<>>

\* C2 (as stated): every intent name outside the dispatch set of spec section
\* 4.2 yields {success:false, error:"Unknown intent"} and neither queries,
\* creates nor messages a tab.
C2_UnknownOutsideSpecSet ==
  \A i \in RouteCalls : calls[i].data.intent \notin SpecDispatchSet => UnknownIntentOutcome(calls[i])

\* C2 (amended): every intent name outside search, website_search, form_fill,
\* book_ticket, open_site, qna, summarize and other yields {success:false,
\* error:"Unknown intent"} and neither queries, creates nor messages a tab.
C2_UnknownIntent ==
  \A i \in RouteCalls :
    calls[i].data.intent \notin SpecDispatchSet \cup {"summarize"} => UnknownIntentOutcome(calls[i])

C2_UnknownIntentRouted == \E i \in RouteCalls : calls[i].data.intent = "play_music" /\ calls[i].pc = "done"

SpecRelayIntents == {"search", "website_search", "form_fill", "book_ticket"}

\* C3 (as stated): a routeIntent call for a relay intent never rejects; when it
\* is over it has returned a Result, which is {success:false, error} whenever
\* no Result came back from the page.
C3_RelayReturnsResult ==
  \A i \in RouteCalls :
    calls[i].data.intent \in SpecRelayIntents /\ calls[i].pc = "done" =>
      /\ calls[i].outcome = "returned"
      /\ calls[i].results = <<>> =>
           /\ calls[i].result.success = FALSE
           /\ Has(calls[i].result, "error")

\* C4: each routeIntent call runs exactly one arm of the dispatch, sends its
\* Command to at most one tab and at most once, and obtains at most one Result.
C4_OneHandlerOneSend ==
  \A i \in RouteCalls :
    /\ Len(calls[i].ran) = 1
    /\ Len(calls[i].sentTo) <= 1
    /\ Len(calls[i].results) <= Len(calls[i].sentTo)
    /\ Len(calls[i].created) <= 1
    /\ Len(calls[i].replies) <= 1

C4_FailedSendNotRetried ==
  \E i \in RouteCalls : calls[i].pc = "done" /\ calls[i].outcome = "thrown" /\ Len(calls[i].sentTo) = 1

CommandTypeOf(intent) ==
  CASE intent = "search" -> "SEARCH"
    [] intent = "website_search" -> "WEBSITE_SEARCH"
    [] intent = "form_fill" -> "FORM_FILL"
    [] intent = "book_ticket" -> "BOOK_TICKET"

\* C5: for a relay intent the Command is {type: <the intent's type>, payload:
\* the IntentPayload as received}, and once the page has answered routeIntent
\* returns the page's Result unchanged.
C5_CommandAndResult ==
  \A i \in RouteCalls :
    calls[i].data.intent \in SpecRelayIntents =>
      /\ calls[i].cmd = [type |-> CommandTypeOf(calls[i].data.intent), payload |-> calls[i].data]
      /\ calls[i].results # <<>> =>
           /\ calls[i].outcome = "returned"
           /\ calls[i].results = <<calls[i].response>>
           /\ calls[i].result = calls[i].response

C5_RelayDelivered ==
  \E i \in RouteCalls :
    /\ calls[i].data.intent = "website_search"
    /\ calls[i].results # <<>>
    /\ calls[i].result.success

HasScheme(url) == StartsWith(url, HttpScheme) \/ StartsWith(url, HttpsScheme)

\* C7 (as stated): the URL open_site opens is the website entity itself when it
\* begins with "http://" or "https://", and "https://" followed by the entity
\* in every other case.
C7_SchemePrefixed ==
  \A i \in RouteCalls :
    calls[i].data.intent = "open_site" /\ calls[i].pc \in {"creating", "waitLoad"} =>
      calls[i].url = IF HasScheme(calls[i].data.entities.website)
                     THEN calls[i].data.entities.website
                     ELSE HttpsScheme \o calls[i].data.entities.website

\* C8: qna and other return {success:true, message: payload.message} at once
\* and neither query, create nor message a tab.
C8_PassThrough ==
  \A i \in RouteCalls :
    calls[i].data.intent \in {"qna", "other"} =>
      /\ calls[i].pc = "done"
      /\ calls[i].outcome = "returned"
      /\ calls[i].result = [success |-> TRUE, message |-> calls[i].data.message]
      /\ calls[i].queries = 0
      /\ calls[i].created = <<>>
      /\ calls[i].sentTo = <<>>
      /\ \A l \in updListeners : l.call # i

C8_QnaAnswered ==
  \E i \in RouteCalls : calls[i].data.intent = "qna" /\ calls[i].data.message = "m2" /\ calls[i].pc = "done"

HasActive(ts) == Len(QueryActive(ts)) > 0
HasValid(ts) == Len(FindValid(ts)) > 0

\* getUsableTab has handed tab t to its caller.
GotTab(c, t) ==
  /\ c.tab = t
  /\ c.pc = "sending" \/ (c.op = "getUsableTab" /\ c.outcome = "returned")

ActiveSettles(i) == calls[i].pc = "activeQuery" /\ calls'[i].pc # "activeQuery"
AnySettles(i) == calls[i].pc = "anyQuery" /\ calls'[i].pc # "anyQuery"

\* The query whose callback this step ran reported chrome.runtime.lastError.
QueryFailed(i) ==
  /\ Len(calls'[i].caught) > Len(calls[i].caught)
  /\ calls'[i].caught[Len(calls'[i].caught)] = QueryError

\* C9 (as stated): tab resolution returns the active tab whenever one exists,
\* and with no active tab it returns a non-restricted open tab whenever one
\* exists, for either value of createIfMissing.
C9_ReturnsExistingTab ==
  [][\A i \in 1..Len(calls) :
       /\ ActiveSettles(i) /\ HasActive(tabs) => GotTab(calls'[i], QueryActive(tabs)[1].id)
       /\ AnySettles(i) /\ ~HasActive(tabs) /\ HasValid(tabs) =>
            /\ GotTab(calls'[i], calls'[i].tab)
            /\ calls'[i].tab \in 1..Len(tabs)
            /\ ~IsRestricted(tabs[calls'[i].tab])]_vars

\* C9 (amended): tab resolution returns the active tab whenever the active-tab
\* query reports one; when that query yields no tab it returns the first open
\* tab that is not a chrome:// tab whenever the all-tabs query reports one, for
\* either value of createIfMissing, and a tab returned from the all-tabs query
\* is never a chrome:// tab.
C9_ReturnsReportedTab ==
  [][\A i \in 1..Len(calls) :
       /\ ActiveSettles(i) /\ HasActive(tabs) /\ ~QueryFailed(i) =>
            GotTab(calls'[i], QueryActive(tabs)[1].id)
       /\ AnySettles(i) /\ HasValid(tabs) /\ ~QueryFailed(i) =>
            GotTab(calls'[i], FindValid(tabs)[1].id)
       /\ AnySettles(i) /\ GotTab(calls'[i], calls'[i].tab) =>
            /\ calls'[i].tab \in 1..Len(tabs)
            /\ ~IsRestricted(tabs[calls'[i].tab])]_vars

C9_FallbackTabReturned ==
  \E i \in 1..Len(calls) :
    /\ calls[i].op = "getUsableTab"
    /\ ~calls[i].allowCreate
    /\ calls[i].outcome = "returned"
    /\ calls[i].caught = <<"No active tab">>
    /\ \E k \in 1..Len(tabs) : IsRestricted(tabs[k]) /\ k < calls[i].tab
    /\ ~IsRestricted(tabs[calls[i].tab])

\* With createIfMissing false, resolution that finds no tab fails with the
\* no-tab error and creates nothing.
FailsWithoutCreating(c) ==
  c.op = "getUsableTab" /\ ~c.allowCreate =>
    /\ c.created = <<>>
    /\ c.pc \notin {"creating", "waitLoad"}
    /\ Len(c.caught) = 2 => c.outcome = "thrown" /\ c.error = "No usable tab found"

\* C10 (as stated): a tab is created only when there is no active tab, no
\* non-restricted open tab and createIfMissing is true; otherwise the open tabs
\* stay as they are, and with createIfMissing false resolution fails with the
\* no-tab error without creating anything.
C10_CreatesOnlyWhenNoTab ==
  [][/\ Len(tabs') > Len(tabs) =>
          /\ ~HasActive(tabs)
          /\ ~HasValid(tabs)
          /\ \E i \in 1..Len(calls) : calls[i].pc = "creating" /\ calls[i].allowCreate
     /\ \A i \in 1..Len(calls) : FailsWithoutCreating(calls'[i])]_vars

\* C10 (amended): a tab is created only when neither query yielded a tab (no
\* active tab or the active-tab query reported an error, and no non-restricted
\* open tab or the all-tabs query reported an error) and createIfMissing is
\* true; otherwise the open tabs stay as they are, and with createIfMissing
\* false resolution that finds no tab fails with the no-tab error without
\* creating anything.
C10_CreatesOnlyWhenUnresolved ==
  [][/\ Len(tabs') > Len(tabs) =>
          \E i \in 1..Len(calls) :
            /\ calls[i].pc = "creating"
            /\ calls[i].allowCreate
            /\ Len(calls[i].caught) = 2
            /\ calls[i].caught[1] = "No active tab" => ~HasActive(tabs)
            /\ calls[i].caught[2] # QueryError => ~HasValid(tabs)
            /\ SubSeq(tabs', 1, Len(tabs)) = [k \in 1..Len(tabs) |-> [tabs[k] EXCEPT !.active = FALSE]]
     /\ Len(tabs') = Len(tabs) =>
          \A k \in 1..Len(tabs) : tabs'[k].id = tabs[k].id /\ tabs'[k].url = tabs[k].url
     /\ \A i \in 1..Len(calls) : FailsWithoutCreating(calls'[i])]_vars

C10_TabCreated ==
  \E i \in 1..Len(calls) :
    /\ calls[i].op = "getUsableTab"
    /\ calls[i].allowCreate
    /\ calls[i].caught = <<"No active tab", "No usable tab">>
    /\ Len(calls[i].created) = 1
    /\ calls[i].outcome = "returned"

\* C11 (as stated): the number of backend calls started equals the number of
\* final transcripts received.
C11_OneCallPerFinal == Len(procs) = nFinals

\* C11 (amended): a transcript callback starts exactly one backend call, for
\* that transcript, when it is final and not blank, and none when it is
\* interim or blank; nothing else starts a call.
C11_OneCallPerNonBlankFinal ==
  [][IF nFinals' = nFinals + 1 /\ ~IsBlank(ui'.state.finalTranscript)
     THEN /\ Len(procs') = Len(procs) + 1
          /\ procs'[Len(procs')].pc = "fetching"
          /\ procs'[Len(procs')].request = [text |-> ui'.state.finalTranscript]
     ELSE Len(procs') = Len(procs)]_vars

C11_TwoFinalsTwoCalls ==
  /\ nFinals = 2
  /\ Len(procs) = 2
  /\ ui.dom.transcriptArea = [kind |-> "text", text |-> <<"h", "i">>, final |-> FALSE]

\* The presentation state the status line shows: the name last given to
\* setUIState; a showError that no setUIState followed leaves its own text.
UIStatus(u) ==
  CASE u.dom.statusText = "Ready" -> "ready"
    [] u.dom.statusText = "Listening..." -> "listening"
    [] u.dom.statusText = "Processing..." -> "processing"
    [] u.dom.statusText = "Responding..." -> "responding"
    [] u.dom.statusText = "Error occurred" -> "error"
    [] OTHER -> u.dom.statusText

ClearAction == \E stopThrows \in BOOLEAN : ClearButtonClick(stopThrows)

\* The mic button (or the space bar) pressed while not listening, with the
\* outcome of VoiceEngine.start().
StartAction(started) ==
  ~ui.state.isListening /\ \E stopThrows \in BOOLEAN : MicButtonClick(started, stopThrows)

\* C12: when the clear action runs while isListening is true, it ends with
\* isListening false, the transcript and response areas cleared and the UI
\* status ready (handleClearButtonClick calls stopListening, and with it
\* VoiceEngine.stop(), before clearAllContent).
C12_ClearStopsListening ==
  [][ui.state.isListening /\ ClearAction =>
        /\ ~ui'.state.isListening
        /\ ui'.dom.transcriptArea = Placeholder
        /\ ui'.dom.responseArea = Placeholder
        /\ UIStatus(ui') = "ready"]_vars

\* C13: after the clear action every field of the UI state has its initial
\* value.
C13_ClearResetsState == [][ClearAction => ui'.state = InitState]_vars

\* C14: the UI status goes from error to ready only by a clear action or a
\* start action.
C14_ErrorLeftOnlyByClearOrRestart ==
  [][UIStatus(ui) = "error" /\ UIStatus(ui') = "ready" =>
        ClearAction \/ \E started \in StartOutcomes : StartAction(started)]_vars

\* C20: the start action sets isListening and shows listening exactly when
\* VoiceEngine.start() returns true; when it returns false or throws,
\* isListening stays false and the UI does not enter listening.
C20_ListeningIffStarted ==
  [][\A started \in StartOutcomes :
       StartAction(started) =>
         IF started = "true"
         THEN /\ ui'.state.isListening
              /\ UIStatus(ui') = "listening"
              /\ "listening" \in ui'.dom.statusDot
              /\ ui'.dom.micListening
         ELSE /\ ~ui'.state.isListening
              /\ UIStatus(ui') # "listening"
              /\ "listening" \in ui'.dom.statusDot => "listening" \in ui.dom.statusDot
              /\ ui'.dom.micListening = ui.dom.micListening]_vars

C20_StartFailed ==
  /\ ui.dom.statusText = "Error: start-failed"
  /\ ui.dom.responseArea.kind = "error"
  /\ ui.dom.responseArea.message = "engine start threw"
  /\ ~ui.state.isListening
  /\ ui.state.sessionStartTime = Now

\* The replies the router's listener has sent for call c.
RepliesMatchOutcome(c) ==
  CASE c.outcome = "returned" -> c.replies = <<[success |-> TRUE, result |-> c.result]>>
    [] c.outcome = "thrown" -> c.replies = <<[success |-> FALSE, error |-> c.error]>>
    [] OTHER -> c.replies = <<>>

\* C15: a message whose type is not PROCESS_INTENT starts no routing call and
\* gets no reply; a PROCESS_INTENT message starts one call, which is answered
\* at most once: with {success:true, result} when routeIntent returned result
\* and with {success:false, error} when it threw, and not before.
C15_RouterReplies ==
  [][
      /\ \A k \in 1..Len(routerInbox) :
          RouterReceive(k) =>
            IF routerInbox[k].type = "PROCESS_INTENT"
            THEN /\ Len(calls') = Len(calls) + 1
                 /\ calls'[Len(calls')].op = "routeIntent"
                 /\ calls'[Len(calls')].data = routerInbox[k].data
            ELSE calls' = calls
      /\ \A i \in 1..Len(calls') :
           calls'[i].op = "routeIntent" => RepliesMatchOutcome(calls'[i])
      /\ \A i \in 1..Len(calls) :
           /\ Len(calls') >= i
           /\ calls[i].replies # <<>> => calls'[i].replies = calls[i].replies]_vars

C15_RoutingErrorAnswered ==
  \E i \in RouteCalls :
    /\ calls[i].outcome = "thrown"
    /\ calls[i].replies = <<[success |-> FALSE, error |-> SendError]>>

KnownCommandTypes == {"SEARCH", "WEBSITE_SEARCH", "FORM_FILL", "BOOK_TICKET", "SUMMARIZE"}

\* The Commands of the given type the content script has handled.
Handled(type) ==
  {i \in 1..Len(cmds) : cmds[i].message.type = type /\ Has(cmds[i].message, "payload")}

\* C16: every Command the content script has handled got exactly one Result:
\* the handler's own Result when it returned, {success:false, error:"Unknown
\* command"} with nothing done to the page for an unrecognized type, and
\* {success:false, error: message} when the handler threw.
C16_OneResultPerCommand ==
  \A i \in 1..Len(cmds) :
    /\ Len(cmds[i].replies) = 1
    /\ cmds[i].message.type \notin KnownCommandTypes =>
         /\ cmds[i].replies[1] = [success |-> FALSE, error |-> "Unknown command"]
         /\ cmds[i].effects = <<>>
    /\ cmds[i].threw => cmds[i].replies[1] = [success |-> FALSE, error |-> cmds[i].error]
    /\ ~cmds[i].threw => Has(cmds[i].replies[1], "success")

C16_TypeErrorAnswered ==
  \E i \in 1..Len(cmds) :
    /\ cmds[i].message.type = "SEARCH"
    /\ cmds[i].effects # <<>>
    /\ cmds[i].replies = <<[success |-> FALSE, error |-> NullSubmitError]>>

\* The elements whose value the effects assigned.
ElementsSet(effects) == {effects[k].el : k \in {j \in 1..Len(effects) : effects[j].op = "value"}}

\* C17: FORM_FILL with a non-empty form_fields mapping returns success and
\* reports as its count the number of page fields whose value it set; it
\* touches no element that no entry matches; a missing or empty mapping
\* yields a failure Result.
C17_FormFillCount ==
  \A i \in Handled("FORM_FILL") :
    LET entities == cmds[i].message.payload.entities
        fields == entities.form_fields
    IN IF ~Has(entities, "form_fields") \/ Len(fields) = 0
       THEN ~cmds[i].replies[1].success /\ cmds[i].effects = <<>>
       ELSE /\ cmds[i].replies[1] =
                 [success |-> TRUE,
                  message |-> "Filled " \o ToString(Cardinality(ElementsSet(cmds[i].effects)))
                                \o " fields"]
            /\ \A k \in 1..Len(cmds[i].effects) :
                 \E f \in 1..Len(fields) :
                   MatchField(cmds[i].before[cmds[i].effects[k].el], fields[f].key)

SubmitEffects(effects) ==
  {k \in 1..Len(effects) :
     effects[k].op = "submit" \/ effects[k] = Effect("event", effects[k].el, "keydown:Enter")}

\* C18: WEBSITE_SEARCH (which requires a query) on a page with no element
\* matching the search-input selector returns the failure Result "No search
\* box found on website" and does nothing to the page; when a matching input
\* exists it sets its value and submits by exactly one mechanism, as its last
\* effect: the form's submit if the input has a form, an Enter keydown on the
\* input otherwise.
C18_WebsiteSearch ==
  \A i \in Handled("WEBSITE_SEARCH") :
    LET entities == cmds[i].message.payload.entities
        box == QuerySelector(cmds[i].before, Selector("searchBox", SearchWord))
        effects == cmds[i].effects
    IN IF box = NoElement
       THEN /\ ~cmds[i].replies[1].success
            /\ effects = <<>>
            /\ Truthy(entities, "query") =>
                 cmds[i].replies[1].error = "No search box found on website"
       ELSE Truthy(entities, "query") =>
              /\ cmds[i].replies[1].success
              /\ Effect("value", box, entities.query) \in {effects[k] : k \in 1..Len(effects)}
              /\ SubmitEffects(effects) = {Len(effects)}
              /\ effects[Len(effects)] =
                   IF cmds[i].before[box].form THEN Effect("submit", box, "")
                   ELSE Effect("event", box, "keydown:Enter")

C18_EnterPressed ==
  \E i \in Handled("WEBSITE_SEARCH") :
    /\ cmds[i].replies[1].success
    /\ \E k \in 1..Len(cmds[i].effects) : cmds[i].effects[k].arg = "keydown:Enter"
    /\ \E k \in 1..Len(webpage.elems) : webpage.elems[k].value = "cats"

Clicks(effects) == {k \in 1..Len(effects) : effects[k].op = "click"}

\* C19: BOOK_TICKET returns success for every payload and page; it fills from,
\* to and date exactly when the entity is present and an input matches, with
\* the entity's value; it clicks the first submit-typed control, if there is
\* one, once, after every fill.
C19_Booking ==
  \A i \in Handled("BOOK_TICKET") :
    LET entities == cmds[i].message.payload.entities
        effects == cmds[i].effects
        submit == QuerySelector(cmds[i].before, Selector("submit", <<>>))
        Input(name) == QuerySelector(cmds[i].before, Selector("autoFill", name))
        FilledWith(name, key) ==
          \E k \in 1..Len(effects) :
            /\ effects[k].op = "value"
            /\ effects[k].el = Input(name)
            /\ Has(entities, key) /\ effects[k].arg = entities[key]
        Right(name, key) ==
          FilledWith(name, key) <=> (Truthy(entities, key) /\ Input(name) # NoElement)
    IN /\ cmds[i].replies = <<[success |-> TRUE, message |-> "Booking form processed"]>>
       /\ Right(FromWord, "from") /\ Right(ToWord, "to") /\ Right(DateWord, "date")
       /\ Cardinality(ElementsSet(effects)) =
            Cardinality({n \in {<<FromWord, "from">>, <<ToWord, "to">>, <<DateWord, "date">>} :
                           FilledWith(n[1], n[2])})
       /\ Clicks(effects) = IF submit = NoElement THEN {} ELSE {Len(effects)}
       /\ submit # NoElement => effects[Len(effects)] = Effect("click", submit, "")

C19_FilledAndClicked ==
  \E i \in Handled("BOOK_TICKET") :
    /\ Clicks(cmds[i].effects) # {}
    /\ Effect("value", 1, "A") \in {cmds[i].effects[k] : k \in 1..Len(cmds[i].effects)}
    /\ Effect("value", 2, "D") \in {cmds[i].effects[k] : k \in 1..Len(cmds[i].effects)}
    /\ "B" \notin {cmds[i].effects[k].arg : k \in 1..Len(cmds[i].effects)}

\* The backend call p ended in this step without a result: fetch rejected or
\* the response was not ok.
CallFailed(p) ==
  /\ procs[p].pc = "fetching"
  /\ procs'[p].pc = "done"
  /\ procs'[p].result = NoResult

\* C21: when the backend call for a final transcript fails, the UI status
\* becomes error and the response area shows the error text; no message is
\* sent to the router, nothing is spoken, and no call is started or restarted.
C21_BackendFailure ==
  [][\A p \in 1..Len(procs) :
       CallFailed(p) =>
         /\ UIStatus(ui') = "error"
         /\ "error" \in ui'.dom.statusDot
         /\ ui'.dom.responseArea =
              [kind |-> "error", message |-> "Failed to process your message", fatal |-> FALSE]
         /\ routerInbox' = routerInbox
         /\ spoken' = spoken
         /\ Len(procs') = Len(procs)
         /\ \A q \in 1..Len(procs) : q # p => procs'[q] = procs[q]]_vars

C21_FailureShown ==
  /\ \E p \in 1..Len(procs) : procs[p].pc = "done" /\ procs[p].result = NoResult
  /\ \A p \in 1..Len(procs) : procs[p].pc = "done"
  /\ UIStatus(ui) = "error"
  /\ ui.dom.responseArea.kind = "error"
  /\ routerInbox = <<>>
  /\ spoken = <<>>

\* The tab the call's createNewTab created.
CreatedTab(c) == c.created[Len(c.created)]

\* This step is a load-complete update for tab tabId.
LoadComplete(tabId) ==
  /\ tabId \in 1..Len(tabs)
  /\ tabs[tabId].status # "complete"
  /\ tabs'[tabId].status = "complete"

\* The created tab has been handed to the caller of createNewTab: the Command
\* is sent to it, getUsableTab returns it, or open_site reports it.
CreatedTabReturned(c) ==
  CASE IsOpenSite(c) ->
         /\ c.outcome = "returned"
         /\ c.result = [success |-> TRUE, tabId |-> CreatedTab(c), message |-> "Website opened"]
    [] c.op = "getUsableTab" -> c.outcome = "returned" /\ c.tab = CreatedTab(c)
    [] OTHER -> c.pc = "sending" /\ c.sentTo = <<CreatedTab(c)>>

\* C22: a call that waits for the tab it created goes on only in a step that
\* is a load-complete update for that same tab, and then the created tab is
\* what it hands on; until then no Command has been sent and nothing has been
\* returned or answered. An update of any other tab leaves the call waiting.
C22_ReleasedByOwnTabOnly ==
  [][\A i \in 1..Len(calls) :
       calls[i].pc = "waitLoad" =>
         /\ calls[i].sentTo = <<>>
         /\ calls[i].outcome = "pending"
         /\ calls[i].replies = <<>>
         /\ IF LoadComplete(CreatedTab(calls[i]))
            THEN CreatedTabReturned(calls'[i])
            ELSE calls'[i] = calls[i]]_vars

C22_SentToCreatedTab ==
  \E i \in RouteCalls :
    /\ calls[i].data.intent = "search"
    /\ Len(calls[i].created) = 1
    /\ calls[i].sentTo = calls[i].created
    /\ CreatedTab(calls[i]) > 1
    /\ tabs[1].status = "loading"

\* Call i waits for the tab it created to finish loading.
Hung(i) == i \in 1..Len(calls) /\ calls[i].pc = "waitLoad"

\* The router has answered the PROCESS_INTENT message of call i.
Answered(i) == i \in 1..Len(calls) /\ calls[i].pc = "done" /\ Len(calls[i].replies) = 1

\* While the created tab does not report complete the call stays as it is:
\* not returned, not answered, and nothing times it out or cancels it.
HungCallStays ==
  [][\A i \in 1..Len(calls) :
       Hung(i) /\ tabs'[CreatedTab(calls[i])].status # "complete" =>
         /\ calls'[i] = calls[i]
         /\ calls[i].outcome = "pending"
         /\ calls[i].replies = <<>>]_vars

\* C23: a routeIntent call whose created tab does not report load-complete
\* never returns and its message is never answered, whatever else happens;
\* meanwhile every other PROCESS_INTENT message is taken by the listener, and
\* every other call ends up answered unless it hangs on a tab of its own.
C23_HungCallBlocksOnlyItself ==
  /\ HungCallStays
  /\ []<>(routerInbox = <<>>)
  /\ \A i \in 1..MaxRouted : <>[](i \in 1..Len(calls) => Answered(i) \/ Hung(i))

C23_LaterCallAnswered ==
  /\ Hung(1)
  /\ tabs[CreatedTab(calls[1])].status = "loading"
  /\ Answered(2)
  /\ calls[2].data.intent = "open_site"
  /\ calls[2].outcome = "returned"

\* The tab-update listeners call i has registered and not removed.
ListenersOf(i) == {l \in updListeners : l.call = i}

\* A createNewTab call has a listener registered exactly while it waits, for
\* the tab it created, and that tab has not reported complete since.
OneListenerWhileWaiting ==
  /\ \A l \in updListeners : l.call \in 1..Len(calls)
  /\ \A i \in 1..Len(calls) :
       /\ Cardinality(ListenersOf(i)) <= 1
       /\ Len(calls[i].created) <= 1
       /\ ListenersOf(i) # {} <=> calls[i].pc = "waitLoad"
       /\ \A l \in ListenersOf(i) :
            l.tabId = CreatedTab(calls[i]) /\ tabs[l.tabId].status = "loading"
  /\ (\A i \in 1..Len(calls) : calls[i].pc = "done") => updListeners = {}

\* A call that is not waiting for its tab is left as it is by tab updates.
ResolvesOnce ==
  [][\A i \in 1..Len(calls) :
       /\ calls[i].pc # "waitLoad" /\ tabs' # tabs /\ Len(tabs') = Len(tabs) =>
            calls'[i] = calls[i]
       /\ calls[i].pc = "waitLoad" /\ calls'[i].pc # "waitLoad" =>
            ListenersOf(i) # {} /\ {l \in updListeners' : l.call = i} = {}]_vars

\* C28: each createNewTab call registers at most one tab-update listener,
\* resolves at most once and removes the listener when its tab reports
\* complete; once every call is over, and so every created tab has reported
\* complete, no listener remains.
C28_ListenersRemoved == []OneListenerWhileWaiting /\ ResolvesOnce

C28_TwoTabsLoaded ==
  /\ Len(calls) = 2
  /\ \A i \in 1..2 : calls[i].pc = "done" /\ Len(calls[i].created) = 1
  /\ calls[1].created # calls[2].created
  /\ calls[1].data.intent = "search"
  /\ updListeners = {}

\* This step is a transcript callback with a final transcript that is not blank.
NewFinal == nFinals' = nFinals + 1 /\ ~IsBlank(ui'.state.finalTranscript)

\* The backend call p succeeded in this step.
CallSucceeded(p) == procs[p].pc = "fetching" /\ procs'[p].pc = "delay"

\* The delay after the response of call p elapsed in this step.
DelayOver(p) == procs[p].pc = "delay" /\ procs'[p].pc = "done"

\* A final transcript that is not blank shows processing; a backend success
\* shows responding, displays the response and forwards the result to the
\* router in the same step; the end of the delay shows ready.
C24_Steps ==
  [][/\ NewFinal => UIStatus(ui') = "processing"
     /\ \A p \in 1..Len(procs) :
          CallSucceeded(p) =>
            /\ UIStatus(ui') = "responding"
            /\ ui'.dom.responseArea = [kind |-> "text", text |-> ResponseText(procs'[p].result)]
            /\ routerInbox' = Append(routerInbox, RouterEnvelope(procs'[p].result))
     /\ \A p \in 1..Len(procs) : DelayOver(p) => UIStatus(ui') = "ready"]_vars

\* The status goes from processing to ready only by a user action or an
\* engine callback, never by a step of processTranscript.
C24_NoShortcut ==
  [][UIStatus(ui) = "processing" /\ UIStatus(ui') = "ready" =>
       procs' = procs /\ nFinals' = nFinals]_vars

\* C24 (as stated): a final transcript that is not blank shows processing, a
\* backend success shows responding with the response displayed and the result
\* forwarded, the end of the delay shows ready, and the status never goes from
\* processing to ready without passing through responding unless a user action
\* or an engine error intervenes.
C24_StatusSequence == C24_Steps /\ C24_NoShortcut

\* C25: after a voice-engine error callback, whatever the UI state was,
\* hasError is true, isListening is false and the UI status is error, with the
\* engine's message shown and the mic button in its stopped state.
C25_EngineError ==
  [][\A errorInfo \in ErrorInfos :
       VoiceError(errorInfo) =>
         /\ ui'.state.hasError
         /\ ~ui'.state.isListening
         /\ UIStatus(ui') = "error"
         /\ "error" \in ui'.dom.statusDot
         /\ ui'.dom.responseArea.kind = "error"
         /\ ui'.dom.responseArea.message = errorInfo.message
         /\ ~ui'.dom.micListening]_vars

C25_ErrorWhileProcessing ==
  /\ ui.state.hasError
  /\ ~ui.state.isListening
  /\ UIStatus(ui) = "error"
  /\ ui.dom.responseArea.kind = "error"
  /\ ui.dom.responseArea.message = "Microphone blocked"
  /\ ui.state.sessionStartTime = Now
  /\ \E p \in 1..Len(procs) : procs[p].pc = "fetching"

\* Several final transcripts were received, every backend call has completed
\* with a result, the last call is the one for the transcript held in
\* finalTranscript, and a response is on display.
AllCallsCompleted ==
  /\ Len(procs) >= 2
  /\ \A p \in 1..Len(procs) : procs[p].pc \in {"delay", "done"} /\ procs[p].result # NoResult
  /\ procs[Len(procs)].transcript = ui.state.finalTranscript
  /\ ui.dom.responseArea.kind = "text"

\* C26 (as stated): once all the calls have completed, the response shown and
\* stored in currentResponse is the backend result for the most recent final
\* transcript, whatever the order in which the responses arrived.
C26_LatestResponseShown ==
  AllCallsCompleted =>
    /\ ui.dom.responseArea.text = ResponseText(procs[Len(procs)].result)
    /\ ui.state.currentResponse = ResponseText(procs[Len(procs)].result)

\* The UI is as a clear action leaves it: running the clear handler here
\* changes nothing.
AfterClear(u) == \E stopThrows \in BOOLEAN : handleClearButtonClick(u, stopThrows) = u

\* This step is the completion of a backend call: its success, its failure or
\* the end of its delay.
CallStep == nFinals' = nFinals /\ procs' # procs

\* C27 (as stated): after a clear action, with no new final transcript and no
\* start action since, the completion of a backend call that was started
\* before the clear leaves currentResponse empty and the UI status ready.
C27_ClearedStaysCleared ==
  [][AfterClear(ui) /\ CallStep =>
       /\ ui'.state.currentResponse = ""
       /\ UIStatus(ui') = "ready"]_vars

====
